---- MODULE Spec2Model ----
(***************************************************************************)
(* Blood bag inventory (src/inventory_app.py): the expiry and age          *)
(* calculator, the status deriver, the CSV load/save adapter and the       *)
(* handlers of the Streamlit page (page run, registration form, inline     *)
(* editor of the active inventory).                                        *)
(*                                                                         *)
(* Dates in memory (datetime.date, pandas Timestamp at midnight) are day   *)
(* numbers counted from 1970-01-01; pd.NaT is NaT.  Text read from and     *)
(* written to the CSV file is a sequence of one-character strings, so that *)
(* strptime and strftime are computed digit by digit.                      *)
(***************************************************************************)
EXTENDS Integers, Sequences, FiniteSets, TLC

VARIABLES
    today,      \* datetime.today().date(), as a day number
    file,       \* df.csv: [exists, rows], rows a sequence of text rows
    session,    \* whether st.session_state holds 'inventory_df'
    df,         \* st.session_state['inventory_df']: a sequence of units
    shown,      \* the date of the last page run, which rendered df
    msg,        \* the st.error / st.success messages of the last page run
    pc,         \* position of the probe specifications
    arg,        \* input of the probe specifications
    out         \* output(s) of the probe specifications

vars == <<today, file, session, df, shown, msg, pc, arg, out>>

----------------------------------------------------------------------------
(* Program constants *)

EXPIRY_CRITICAL_DAYS == 3
COMPONENTS == {"Whole Blood", "PRBC", "Platelets", "FFP"}
STATUS_OPTIONS == {"Available", "Crossmatched", "Expired", "Transfused"}
NaT == -1

----------------------------------------------------------------------------
(* Bounds of the model *)

\* the page's calendar runs over Day0 .. Day0 + MaxDay
MaxDay == 1
\* units the inventory may hold
MaxUnits == 2
\* rows of the file found at start-up
MaxFileRows == 1
\* record sets of the deriver probe have 1 .. MaxProbeUnits units
MaxProbeUnits == 2
\* collection dates of the calculator probe: Day0 .. Day0 + MaxProbeDay
MaxProbeDay == 4
\* files of the round-trip probe have 1 .. MaxProbeRows rows
MaxProbeRows == 2

----------------------------------------------------------------------------
(* The calendar: datetime.date <-> (year, month, day), proleptic Gregorian *)

IsLeap(y) == (y % 4 = 0 /\ y % 100 # 0) \/ y % 400 = 0

DaysInMonth(y, m) ==
    IF m = 2 THEN (IF IsLeap(y) THEN 29 ELSE 28)
    ELSE IF m \in {4, 6, 9, 11} THEN 30 ELSE 31

\* date(y, m, d) as a day number (1970-01-01 is 0)
DaysFromCivil(y, m, d) ==
    LET yy  == IF m <= 2 THEN y - 1 ELSE y
        era == yy \div 400
        yoe == yy - era * 400
        mp  == IF m > 2 THEN m - 3 ELSE m + 9
        doy == (153 * mp + 2) \div 5 + d - 1
        doe == yoe * 365 + yoe \div 4 - yoe \div 100 + doy
    IN  era * 146097 + doe - 719468

\* the (year, month, day) of a day number
CivilFromDays(z) ==
    LET zz  == z + 719468
        era == zz \div 146097
        doe == zz - era * 146097
        yoe == (doe - doe \div 1460 + doe \div 36524 - doe \div 146096) \div 365
        doy == doe - (365 * yoe + yoe \div 4 - yoe \div 100)
        mp  == (5 * doy + 2) \div 153
        d   == doy - (153 * mp + 2) \div 5 + 1
        m   == IF mp < 10 THEN mp + 3 ELSE mp - 9
        y   == yoe + era * 400 + (IF m <= 2 THEN 1 ELSE 0)
    IN  [y |-> y, m |-> m, d |-> d]

----------------------------------------------------------------------------
(* Text: digits, strftime and strptime with DATE_FORMAT_STRING '%Y-%m-%d'  *)

Digit == <<"0", "1", "2", "3", "4", "5", "6", "7", "8", "9">>

IsDigit(c) == \E i \in 1..10 : Digit[i] = c

DigitVal(c) == (CHOOSE i \in 1..10 : Digit[i] = c) - 1

IsDigits(s) == Len(s) > 0 /\ \A i \in 1..Len(s) : IsDigit(s[i])

\* int(s) of a digit sequence
RECURSIVE IntOf(_)
IntOf(s) ==
    IF Len(s) = 0 THEN 0
    ELSE 10 * IntOf(SubSeq(s, 1, Len(s) - 1)) + DigitVal(s[Len(s)])

\* str(n) of a natural number
RECURSIVE StrOf(_)
StrOf(n) ==
    IF n < 10 THEN <<Digit[n + 1]>>
    ELSE StrOf(n \div 10) \o <<Digit[(n % 10) + 1]>>

\* n zero-padded to w digits
RECURSIVE Pad(_, _)
Pad(s, w) == IF Len(s) >= w THEN s ELSE Pad(<<"0">> \o s, w)

NoneText == <<"N", "o", "n", "e">>
EmptyText == << >>

\* d.strftime('%Y-%m-%d')
Strftime(d) ==
    LET c == CivilFromDays(d)
    IN  Pad(StrOf(c.y), 4) \o <<"-">> \o Pad(StrOf(c.m), 2) \o <<"-">>
            \o Pad(StrOf(c.d), 2)

\* the other format observed across the deployments, MM/DD/YYYY
StrftimeUS(d) ==
    LET c == CivilFromDays(d)
    IN  Pad(StrOf(c.m), 2) \o <<"/">> \o Pad(StrOf(c.d), 2) \o <<"/">>
            \o Pad(StrOf(c.y), 4)

\* pd.to_datetime(s, format='%Y-%m-%d', errors='coerce') of one cell:
\* four digits, '-', two digits, '-', two digits naming a date, else NaT.
\* read_csv reads an empty cell and the text None as NaN, which is NaT.
ToDatetime(s) ==
    IF /\ Len(s) = 10
       /\ s[5] = "-" /\ s[8] = "-"
       /\ \A i \in {1, 2, 3, 4, 6, 7, 9, 10} : IsDigit(s[i])
    THEN LET y == IntOf(SubSeq(s, 1, 4))
             m == IntOf(SubSeq(s, 6, 7))
             d == IntOf(SubSeq(s, 9, 10))
         IN  IF m \in 1..12 /\ d >= 1 /\ d <= DaysInMonth(y, m)
             THEN DaysFromCivil(y, m, d)
             ELSE NaT
    ELSE NaT

\* faulty variant: the write format differs from the read format
date_to_string_us(d) == IF d = NaT THEN NoneText ELSE StrftimeUS(d)

\* date_to_string of save_data
date_to_string(d) == IF d = NaT THEN NoneText ELSE Strftime(d)

----------------------------------------------------------------------------
(* Expiry and age calculator *)

\* faulty variant: seven years of 365 days, without the leap-year day
calculate_expiry_noleap(collected_date, component) ==
    IF component \in {"PRBC", "Whole Blood"} THEN collected_date + 42
    ELSE IF component = "Platelets" THEN collected_date + 5
    ELSE IF component = "FFP" THEN collected_date + 7 * 365
    ELSE collected_date + 42

calculate_expiry(collected_date, component) ==
    IF component \in {"PRBC", "Whole Blood"} THEN collected_date + 42
    ELSE IF component = "Platelets" THEN collected_date + 5
    ELSE IF component = "FFP" THEN collected_date + (7 * 365 + 1)
    ELSE collected_date + 42

\* faulty variant: years of 366 days
compute_age_text_366(collected_date, component, now) ==
    IF collected_date > now THEN "Future"
    ELSE LET diff_days == now - collected_date
         IN  IF component = "FFP"
             THEN ToString(diff_days \div 366) \o "y "
                      \o ToString(diff_days % 366) \o "d"
             ELSE ToString(diff_days) \o "d"

\* now is datetime.today().date(); a Timestamp is cut to its date first.
\* A collected date of NaT never gets here: see load_ok.
compute_age_text(collected_date, component, now) ==
    IF collected_date > now THEN "Future"
    ELSE LET diff_days == now - collected_date
         IN  IF component = "FFP"
             THEN ToString(diff_days \div 365) \o "y "
                      \o ToString(diff_days % 365) \o "d"
             ELSE ToString(diff_days) \o "d"

----------------------------------------------------------------------------
(* Status deriver *)

\* A unit in memory: one row of the DataFrame.  The columns segment, source,
\* blood_type, volume and patient are carried along unread by the code
\* modelled here and are left out.
\*   serial    [ty |-> "str", v |-> text] or [ty |-> "int", v |-> number]
\*   component, status, age    strings
\*   collected, expiry         day numbers or NaT

EXPIRABLE == {"Available", "Crossmatched"}

Expire(u) == [u EXCEPT !.status = "Expired"]

RowIsDue(u, now) ==
    u.status \in EXPIRABLE /\ u.expiry # NaT /\ u.expiry <= now

\* faulty variants of the row mask of update_inventory_status: a strict
\* comparison, only the first row found, any status, a missing date taken
\* as the earliest date
update_inventory_status_strict(X, now) ==
    [i \in DOMAIN X |->
        IF X[i].status \in EXPIRABLE /\ X[i].expiry # NaT /\ X[i].expiry < now
        THEN Expire(X[i]) ELSE X[i]]

update_inventory_status_first(X, now) ==
    [i \in DOMAIN X |->
        IF RowIsDue(X[i], now) /\ \A j \in 1..(i - 1) : ~RowIsDue(X[j], now)
        THEN Expire(X[i]) ELSE X[i]]

update_inventory_status_anystatus(X, now) ==
    [i \in DOMAIN X |->
        IF X[i].expiry # NaT /\ X[i].expiry <= now
        THEN Expire(X[i]) ELSE X[i]]

update_inventory_status_nat(X, now) ==
    [i \in DOMAIN X |->
        IF X[i].status \in EXPIRABLE /\ X[i].expiry <= now
        THEN Expire(X[i]) ELSE X[i]]

\* df.loc[status.isin(expirable) & (expiry.dt.date <= today), 'status'] =
\* 'Expired'; the comparison of a missing date is False
update_inventory_status(X, now) ==
    [i \in DOMAIN X |->
        IF RowIsDue(X[i], now) THEN Expire(X[i]) ELSE X[i]]

----------------------------------------------------------------------------
(* Row styling *)

RED == "background-color: #f8d7da"
YELLOW == "background-color: #fff3cd"
PLAIN == ""

\* faulty variant: the day of expiry counts as near-expiry
color_rows_by_expiry_incl(row, now) ==
    IF row.status = "Expired" THEN RED
    ELSE IF row.expiry = NaT THEN PLAIN
    ELSE LET days_left == row.expiry - now
         IN  IF days_left <= EXPIRY_CRITICAL_DAYS /\ days_left >= 0
             THEN YELLOW ELSE PLAIN

color_rows_by_expiry(row, now) ==
    IF row.status = "Expired" THEN RED
    ELSE IF row.expiry = NaT THEN PLAIN
    ELSE LET days_left == row.expiry - now
         IN  IF days_left <= EXPIRY_CRITICAL_DAYS /\ days_left > 0
             THEN YELLOW ELSE PLAIN

----------------------------------------------------------------------------
(* CSV adapter: read_csv + load_data, save_data + to_csv *)

\* A row of the file is text: serial, collected and expiry are character
\* sequences, component, age and status are kept as the strings they are.

\* read_csv infers the type of the serial column from all its cells: a
\* column of digit strings only is read as integers, any other as strings.
SerialColumnIsInt(rows) ==
    Len(rows) > 0 /\ \A i \in 1..Len(rows) : IsDigits(rows[i].serial)

ReadSerial(rows, i) ==
    IF SerialColumnIsInt(rows)
    THEN [ty |-> "int", v |-> IntOf(rows[i].serial)]
    ELSE [ty |-> "str", v |-> rows[i].serial]

\* to_csv writes str(value) of a serial
SerialText(x) == IF x.ty = "int" THEN StrOf(x.v) ELSE x.v

\* compute_age_text (line 59) compares the collected date with a
\* datetime.date; pandas refuses to order NaT and a date (TypeError), so
\* load_data raises on a file with a missing or unparseable collected date
load_ok(f) ==
    \A i \in 1..Len(f.rows) : ToDatetime(f.rows[i].collected) # NaT

load_data(f, now) ==
    LET rows == IF f.exists THEN f.rows ELSE << >>
        typed == [i \in 1..Len(rows) |->
            LET collected == ToDatetime(rows[i].collected)
            IN  [serial |-> ReadSerial(rows, i),
                 component |-> rows[i].component,
                 collected |-> collected,
                 expiry |-> ToDatetime(rows[i].expiry),
                 age |-> compute_age_text(collected, rows[i].component, now),
                 status |-> rows[i].status]]
    IN  update_inventory_status(typed, now)

save_data(X) ==
    [exists |-> TRUE,
     rows |-> [i \in 1..Len(X) |->
                 [serial |-> SerialText(X[i].serial),
                  component |-> X[i].component,
                  collected |-> date_to_string(X[i].collected),
                  expiry |-> date_to_string(X[i].expiry),
                  age |-> X[i].age,
                  status |-> X[i].status]]]

----------------------------------------------------------------------------
(* The page's calendar *)

Day0 == DaysFromCivil(2024, 2, 26)

\* the variables of the page, untouched by the probe specifications
PageIdle ==
    /\ today = Day0
    /\ file = [exists |-> FALSE, rows |-> << >>]
    /\ session = FALSE
    /\ df = << >>
    /\ shown = Day0
    /\ msg = {}

PageVars == <<today, file, session, df, shown, msg>>

----------------------------------------------------------------------------
(* The page: every interaction runs the script from the top *)

\* serial numbers the operator types
SerialInputs == {<<"A", "1">>, <<"1", "2">>}

\* components and collection dates the operator registers; the expiry
\* date is the one computed or one the operator sets, a day after collection
RegComponents == {"Platelets"}
RegCollected == {Day0}

\* the file found at start-up: none, or rows written earlier or by hand;
\* the expiry cell may hold anything, the collected cell holds a date
InitExpiryCells ==
    {Strftime(Day0 + 1), NoneText, StrftimeUS(Day0 + 1)}

InitRows ==
    [serial : {<<"7">>},
     component : {"PRBC"},
     collected : {Strftime(Day0 - 1)},
     expiry : InitExpiryCells,
     age : {"1d"},
     status : {"Available"}]

RECURSIVE SeqsUpTo(_, _)
SeqsUpTo(S, n) ==
    IF n = 0 THEN {<< >>}
    ELSE LET shorter == SeqsUpTo(S, n - 1)
         IN  shorter \cup {Append(q, x) : q \in {r \in shorter : Len(r) = n - 1},
                                          x \in S}

DistinctSerials(rows) ==
    \A i, j \in 1..Len(rows) : i # j => rows[i].serial # rows[j].serial

InitFiles ==
    {[exists |-> FALSE, rows |-> << >>]} \cup
    {[exists |-> TRUE, rows |-> r] :
        r \in {q \in SeqsUpTo(InitRows, MaxFileRows) : DistinctSerials(q)}}

Init ==
    /\ today = Day0
    /\ file \in InitFiles
    /\ session = FALSE
    /\ df = << >>
    /\ shown = Day0
    /\ msg = {}
    /\ pc = "page"
    /\ arg = << >>
    /\ out = << >>

\* lines 223-227: load on the first run of a session, derive on every run.
\* Without a file load_data starts from an empty DataFrame (line 77).
TopOfScript ==
    update_inventory_status(
        IF session THEN df ELSE load_data(file, today), today)

\* the serial typed is found in the serial column: a string equals no
\* integer (serial in df['serial'].values)
SerialInValues(serial, X) ==
    \E i \in 1..Len(X) : X[i].serial.ty = "str" /\ X[i].serial.v = serial

\* a run of the page with no button pressed
PageRun ==
    /\ df' = TopOfScript
    /\ session' = TRUE
    /\ shown' = today
    /\ msg' = {}
    /\ UNCHANGED <<today, file, pc, arg, out>>

\* new_unit_form submitted (lines 336-364), then st.rerun()
Register(serial, component, collected, expiry, status) ==
    /\ session
    /\ LET d1 == TopOfScript
       IN  IF SerialInValues(serial, d1)
           THEN /\ msg' = {"exists"}
                /\ df' = d1
                /\ file' = file
           ELSE /\ Len(d1) < MaxUnits
                /\ LET new_unit == [serial |-> [ty |-> "str", v |-> serial],
                                    component |-> component,
                                    collected |-> collected,
                                    expiry |-> expiry,
                                    age |-> compute_age_text(collected, component, today),
                                    status |-> status]
                   IN  file' = save_data(Append(d1, new_unit))
                /\ df' = update_inventory_status(load_data(file', today), today)
                /\ msg' = {"added"}
    /\ shown' = today
    /\ UNCHANGED <<today, session, pc, arg, out>>

RegisterSome ==
    \E serial \in SerialInputs, component \in RegComponents,
       collected \in RegCollected, status \in STATUS_OPTIONS :
        \E expiry \in {calculate_expiry(collected, component), collected + 1} :
            Register(serial, component, collected, expiry, status)

\* what the operator may type into the Serial cell of the editor: a number
\* in a column of integers, a text otherwise
SerialEdits(X) ==
    IF \A i \in 1..Len(X) : X[i].serial.ty = "int"
    THEN {[ty |-> "int", v |-> IntOf(s)] : s \in {t \in SerialInputs : IsDigits(t)}}
    ELSE {[ty |-> "str", v |-> s] : s \in SerialInputs}

\* faulty variant: the editor shows every unit, not only the active ones
SaveChanges_allrows(i, serial, expiry, status) ==
    /\ session
    /\ LET d1 == TopOfScript
       IN  /\ i \in 1..Len(d1)
           /\ LET edited == [d1 EXCEPT ![i].serial = serial,
                                       ![i].expiry = expiry,
                                       ![i].status = status]
                  saved == update_inventory_status(edited, today)
              IN  /\ file' = save_data(saved)
                  /\ df' = update_inventory_status(saved, today)
    /\ shown' = today
    /\ msg' = {"saved"}
    /\ UNCHANGED <<today, session, pc, arg, out>>

\* "Save Changes" of the active inventory editor (lines 408-420), then
\* st.rerun(): row i of the table was edited (or left as it was)
SaveChanges(i, serial, expiry, status) ==
    /\ session
    /\ LET d1 == TopOfScript
       IN  /\ i \in 1..Len(d1)
           /\ d1[i].status \in {"Available", "Crossmatched"}
           /\ LET edited == [d1 EXCEPT ![i].serial = serial,
                                       ![i].expiry = expiry,
                                       ![i].status = status]
                  saved == update_inventory_status(edited, today)
              IN  /\ file' = save_data(saved)
                  /\ df' = update_inventory_status(saved, today)
    /\ shown' = today
    /\ msg' = {"saved"}
    /\ UNCHANGED <<today, session, pc, arg, out>>

\* the operator changes one cell of one row, or none, and saves
SaveSome ==
    \E i \in 1..MaxUnits :
        /\ i <= Len(df)
        /\ \/ \E serial \in SerialEdits(df) :
                  SaveChanges(i, serial, df[i].expiry, df[i].status)
           \/ \E expiry \in {NaT, today + 1} :
                  SaveChanges(i, df[i].serial, expiry, df[i].status)
           \/ \E status \in STATUS_OPTIONS :
                  SaveChanges(i, df[i].serial, df[i].expiry, status)

\* the calendar date advances
Tick ==
    /\ today < Day0 + MaxDay
    /\ today' = today + 1
    /\ UNCHANGED <<file, session, df, shown, msg, pc, arg, out>>

\* the session ends (browser closed, server restarted): its state is gone
EndSession ==
    /\ session
    /\ session' = FALSE
    /\ df' = << >>
    /\ UNCHANGED <<today, file, shown, msg, pc, arg, out>>

Next == PageRun \/ RegisterSome \/ SaveSome \/ Tick \/ EndSession

Spec == Init /\ [][Next]_vars

----------------------------------------------------------------------------
(* Claims on the page (checked under Spec) *)

\* C1: in the record set a page run surfaced (after a load, a rerun, a
\* registration or a saved edit), no unit is Available or Crossmatched with
\* a parseable expiry date on or before the date of that run.
C1_NoOverdueActive ==
    session =>
        \A i \in 1..Len(df) :
            df[i].status \in {"Available", "Crossmatched"} /\ df[i].expiry # NaT
                => df[i].expiry > shown

\* C1 witness: a unit saved as Available is surfaced as Expired on the very
\* day of its expiry date, after the calendar advanced.
C1_Witness ==
    /\ session
    /\ shown = today
    /\ today > Day0
    /\ \E i \in 1..Len(df) :
          /\ file.rows[i].status = "Available"
          /\ df[i].status = "Expired"
          /\ df[i].expiry = today

HasSerial(X, serial) ==
    \E i \in 1..Len(X) : SerialText(X[i].serial) = serial

\* C5 as stated: a registration whose serial is the serial of a unit of the
\* inventory shows the duplicate error and changes neither the record set
\* nor the file.
C5_DuplicateRejected ==
    [][\A serial \in SerialInputs :
          (/\ session
           /\ HasSerial(TopOfScript, serial)
           /\ \E component \in RegComponents, collected \in RegCollected,
                 status \in STATUS_OPTIONS :
                 \E expiry \in {calculate_expiry(collected, component),
                                collected + 1} :
                     Register(serial, component, collected, expiry, status))
          => /\ msg' = {"exists"}
             /\ df' = TopOfScript
             /\ file' = file]_vars

\* C5 witness: the inventory holds one serial twice and the last page run
\* reported a successful registration.
C5_Witness ==
    /\ session
    /\ msg = {"added"}
    /\ \E i, j \in 1..Len(df) :
          i # j /\ SerialText(df[i].serial) = SerialText(df[j].serial)

\* C6 as stated: no two units of the inventory have the same serial.
C6_SerialsUnique ==
    session =>
        \A i, j \in 1..Len(df) :
            i # j => SerialText(df[i].serial) # SerialText(df[j].serial)

\* C6 witness: an inline edit of the Serial cell was saved and the inventory
\* holds one serial twice.
C6_Witness ==
    /\ session
    /\ msg = {"saved"}
    /\ \E i, j \in 1..Len(df) :
          i # j /\ SerialText(df[i].serial) = SerialText(df[j].serial)

\* the expiry cell of row i of the file is no date
ExpiryUnparseable(i) == ToDatetime(file.rows[i].expiry) = NaT

StatusBefore(i) == IF session THEN df[i].status ELSE file.rows[i].status

\* unit i is there before and after the step and its status differs
StatusChanged(i) ==
    /\ session'
    /\ i <= (IF session THEN Len(df) ELSE Len(file.rows))
    /\ i <= Len(df')
    /\ StatusBefore(i) # df'[i].status

\* the step saved the editor's table
EditSaved == msg' = {"saved"}

\* the automatic expiry rule: an active unit whose expiry date is on or
\* before today becomes Expired
AutoExpiry(i) ==
    /\ StatusBefore(i) \in EXPIRABLE
    /\ df'[i].status = "Expired"
    /\ df'[i].expiry # NaT
    /\ df'[i].expiry <= today'

LifecycleEdit(i) ==
    /\ EditSaved
    /\ <<StatusBefore(i), df'[i].status>> \in
           {<<"Available", "Crossmatched">>, <<"Crossmatched", "Transfused">>}

\* C11 as stated: every change of a unit's status is Available ->
\* Crossmatched or Crossmatched -> Transfused by a saved edit, or Available
\* / Crossmatched -> Expired by the automatic rule when expiry <= today.
C11_Original ==
    [][\A i \in 1..MaxUnits :
          StatusChanged(i) => LifecycleEdit(i) \/ AutoExpiry(i)]_vars

\* the statuses of a session are the saved ones, but for the units the
\* automatic rule expired since
SavedOrExpired ==
    session =>
        /\ Len(df) = Len(file.rows)
        /\ \A i \in 1..Len(df) :
              \/ df[i].status = file.rows[i].status
              \/ /\ file.rows[i].status \in EXPIRABLE
                 /\ df[i].status = "Expired"
                 /\ df[i].expiry # NaT
                 /\ df[i].expiry <= shown

\* C11 amended: every change of a unit's status starts from Available or
\* Crossmatched; it is a saved edit of the operator, to any other status,
\* or the automatic rule, to Expired when expiry <= today.  No unit leaves
\* Expired or Transfused, within a session or from the file to a session
\* that loads it.
C11_StatusChanges ==
    [][/\ \A i \in 1..MaxUnits :
             StatusChanged(i) =>
                 \/ EditSaved /\ StatusBefore(i) \in EXPIRABLE
                 \/ AutoExpiry(i)
       /\ SavedOrExpired']_vars

\* C11 witness: the unit found in the file as Available was set to
\* Transfused in the editor and saved, its expiry date still ahead.
C11_Witness ==
    /\ session
    /\ msg = {"saved"}
    /\ \E i \in 1..Len(df) :
          /\ SerialText(df[i].serial) = <<"7">>
          /\ df[i].status = "Transfused"
          /\ file.rows[i].status = "Transfused"
          /\ df[i].expiry > today

----------------------------------------------------------------------------
(* Probe of the calculator and of the styling of one unit:                  *)
(* calculate_expiry, compute_age_text, update_inventory_status on the unit *)
(* as registered, color_rows_by_expiry on the row before and after         *)

\* now - collected_date of the probe, in days
NowOffsets == {-1, 0, 1, 2, 3, 4, 5, 6, 35, 42, 364, 365, 400, 2556}

CalcArgs ==
    [component : COMPONENTS,
     collected : Day0..(Day0 + MaxProbeDay),
     offset : NowOffsets,
     status : STATUS_OPTIONS,
     expiry_cleared : BOOLEAN]

CalcNow == arg.collected + arg.offset

CalcInit ==
    /\ PageIdle
    /\ pc = "in"
    /\ arg \in CalcArgs
    /\ out = [expiry |-> NaT, age |-> "", unit |-> << >>, derived |-> << >>,
              css_unit |-> "", css_derived |-> ""]

CalcExpiry ==
    /\ pc = "in"
    /\ out' = [out EXCEPT
                 !.expiry = calculate_expiry(arg.collected, arg.component)]
    /\ pc' = "expiry"
    /\ UNCHANGED <<arg, PageVars>>

CalcAge ==
    /\ pc = "expiry"
    /\ out' = [out EXCEPT
                 !.age = compute_age_text(arg.collected, arg.component, CalcNow)]
    /\ pc' = "age"
    /\ UNCHANGED <<arg, PageVars>>

CalcDerive ==
    /\ pc = "age"
    /\ LET u == [serial |-> [ty |-> "int", v |-> 1],
                 component |-> arg.component,
                 collected |-> arg.collected,
                 expiry |-> IF arg.expiry_cleared THEN NaT ELSE out.expiry,
                 age |-> out.age,
                 status |-> arg.status]
       IN  out' = [out EXCEPT
                     !.unit = <<u>>,
                     !.derived = update_inventory_status(<<u>>, CalcNow)]
    /\ pc' = "derived"
    /\ UNCHANGED <<arg, PageVars>>

CalcColor ==
    /\ pc = "derived"
    /\ out' = [out EXCEPT
                 !.css_unit = color_rows_by_expiry(out.unit[1], CalcNow),
                 !.css_derived = color_rows_by_expiry(out.derived[1], CalcNow)]
    /\ pc' = "done"
    /\ UNCHANGED <<arg, PageVars>>

CalcNext == CalcExpiry \/ CalcAge \/ CalcDerive \/ CalcColor

SpecCalc == CalcInit /\ [][CalcNext]_vars

----------------------------------------------------------------------------
(* Probe of the deriver on a record set: once, then on its own result *)

ProbeExpiries == {NaT, Day0, Day0 + 1, Day0 + 2}

ProbeUnit(i, st, e) ==
    [serial |-> [ty |-> "int", v |-> i], component |-> "PRBC",
     collected |-> Day0 - 40, expiry |-> e, age |-> "40d", status |-> st]

ProbeSets ==
    UNION {{[i \in 1..n |-> ProbeUnit(i, f[i][1], f[i][2])] :
               f \in [1..n -> STATUS_OPTIONS \X ProbeExpiries]} :
           n \in 1..MaxProbeUnits}

DeriveInit ==
    /\ PageIdle
    /\ pc = "in"
    /\ arg \in [X : ProbeSets, now : {Day0, Day0 + 1}]
    /\ out = [once |-> << >>, twice |-> << >>]

DeriveOnce ==
    /\ pc = "in"
    /\ out' = [out EXCEPT !.once = update_inventory_status(arg.X, arg.now)]
    /\ pc' = "once"
    /\ UNCHANGED <<arg, PageVars>>

DeriveTwice ==
    /\ pc = "once"
    /\ out' = [out EXCEPT !.twice = update_inventory_status(out.once, arg.now)]
    /\ pc' = "twice"
    /\ UNCHANGED <<arg, PageVars>>

DeriveNext == DeriveOnce \/ DeriveTwice

SpecDerive == DeriveInit /\ [][DeriveNext]_vars

----------------------------------------------------------------------------
(* Claims on the calculator (checked under SpecCalc) *)

ShelfLife35(c) ==
    CASE c = "Whole Blood" -> 35
      [] c = "PRBC" -> 35
      [] c = "Platelets" -> 5
      [] c = "FFP" -> 2556

ShelfLife42(c) ==
    CASE c = "Whole Blood" -> 42
      [] c = "PRBC" -> 42
      [] c = "Platelets" -> 5
      [] c = "FFP" -> 2556

\* C2 as stated: calculate_expiry(d, c) - d is 35 days for Whole Blood and
\* PRBC, 5 days for Platelets and 2,556 days for FFP.
C2_Original ==
    pc # "in" => out.expiry - arg.collected = ShelfLife35(arg.component)

\* C2 amended: calculate_expiry(d, c) - d is exactly 42 days for Whole Blood
\* and for PRBC, 5 days for Platelets and 2,556 days for FFP, for every
\* collection date d.
C2_ShelfLife ==
    pc # "in" => out.expiry - arg.collected = ShelfLife42(arg.component)

\* C2 witness: an FFP unit collected before 29 February 2024 has its expiry
\* computed: 2,556 days later, across the leap days of 2024 and 2028.
C2_Witness ==
    /\ pc = "expiry"
    /\ arg.component = "FFP"
    /\ arg.collected < DaysFromCivil(2024, 2, 29)
    /\ out.expiry = DaysFromCivil(2031, 2, 25)

\* C8: compute_age_text is "Future" when the collection date is strictly
\* after the current date; otherwise, with n the whole days between them,
\* "{n div 365}y {n mod 365}d" for FFP and "{n}d" for every other component;
\* a unit collected today reads "0d" (non-FFP) and an FFP unit of 400 days
\* reads "1y 35d".
C8_AgeText ==
    pc \in {"age", "derived", "done"} =>
        LET n == CalcNow - arg.collected
        IN  /\ arg.collected > CalcNow => out.age = "Future"
            /\ arg.collected <= CalcNow /\ arg.component = "FFP" =>
                   out.age = ToString(n \div 365) \o "y " \o ToString(n % 365) \o "d"
            /\ arg.collected <= CalcNow /\ arg.component # "FFP" =>
                   out.age = ToString(n) \o "d"
            /\ n = 0 /\ arg.component # "FFP" => out.age = "0d"
            /\ n = 400 /\ arg.component = "FFP" => out.age = "1y 35d"
            /\ n = 400 /\ arg.component # "FFP" => out.age = "400d"
            /\ n = 364 /\ arg.component = "FFP" => out.age = "0y 364d"
            /\ n = 365 /\ arg.component = "FFP" => out.age = "1y 0d"

\* C8 witness: the age of an FFP unit collected 400 days ago was computed.
C8_Witness ==
    /\ pc = "age"
    /\ arg.component = "FFP"
    /\ arg.offset = 400
    /\ out.age = "1y 35d"

\* The style the rule order of C9 gives a row with a parseable expiry date;
\* "own" stands for a style that mirrors Transfused, whatever its colour.
ClaimedStyle(row, now) ==
    LET days_left == row.expiry - now
    IN  IF row.status = "Expired" THEN RED
        ELSE IF row.status = "Transfused" THEN "own"
        ELSE IF days_left < 0 THEN RED
        ELSE IF days_left <= 3 THEN YELLOW
        ELSE PLAIN

StyleAgrees(css, claimed) ==
    IF claimed = "own" THEN css \notin {PLAIN, YELLOW} ELSE css = claimed

AmendedStyle(row, now) ==
    IF row.status = "Expired" THEN RED
    ELSE IF row.expiry = NaT THEN PLAIN
    ELSE IF 0 < row.expiry - now /\ row.expiry - now <= 3 THEN YELLOW
    ELSE PLAIN

----------------------------------------------------------------------------
(* Claims on the deriver (checked under SpecDerive) *)

\* C3: update_inventory_status is idempotent: at a fixed current date,
\* applying it to its own result changes no field of any unit.
C3_Idempotent == pc = "twice" => out.twice = out.once

\* C3 witness: the deriver ran twice on a record set in which the first run
\* expired two units.
C3_Witness ==
    /\ pc = "twice"
    /\ Len(arg.X) >= 2
    /\ \A i \in 1..2 : arg.X[i].status \in EXPIRABLE
                          /\ out.once[i].status = "Expired"

\* C4: update_inventory_status never changes the status of an Expired or
\* Transfused unit; the only change it makes is Available -> Expired or
\* Crossmatched -> Expired; it changes no other field and no row count.
C4_Frame ==
    pc \in {"once", "twice"} =>
        /\ Len(out.once) = Len(arg.X)
        /\ \A i \in 1..Len(arg.X) :
            LET u == arg.X[i]
                w == out.once[i]
            IN  /\ u.status \in {"Expired", "Transfused"} => w.status = u.status
                /\ w.status # u.status =>
                       u.status \in {"Available", "Crossmatched"}
                           /\ w.status = "Expired"
                /\ [w EXCEPT !.status = u.status] = u

\* C4 witness: the deriver ran on a Transfused unit whose expiry date has
\* passed, next to a unit it expired.
C4_Witness ==
    /\ pc = "once"
    /\ \E i, j \in 1..Len(arg.X) :
          /\ arg.X[i].status = "Transfused"
          /\ arg.X[i].expiry # NaT /\ arg.X[i].expiry <= arg.now
          /\ arg.X[j].status = "Crossmatched"
          /\ out.once[j].status = "Expired"

----------------------------------------------------------------------------
(* Probe of the round trip: load_data of a file, then save_data *)

ProbeCollectedCells ==
    {Strftime(Day0 - 1), Strftime(Day0 - 366), NoneText, StrftimeUS(Day0 - 1)}

\* 2023 is no leap year
ProbeExpiryCells ==
    {Strftime(Day0 + 4), Strftime(DaysFromCivil(2031, 12, 31)), NoneText,
     EmptyText, StrftimeUS(Day0 + 4),
     <<"2", "0", "2", "3", "-", "0", "2", "-", "2", "9">>}

ProbeRows ==
    [serial : {<<"7">>},
     component : {"FFP"},
     collected : ProbeCollectedCells,
     expiry : ProbeExpiryCells,
     age : {"1d"},
     status : {"Available"}]

RoundTripInit ==
    /\ PageIdle
    /\ pc = "in"
    /\ arg \in {[exists |-> TRUE, rows |-> r] :
                   r \in {q \in SeqsUpTo(ProbeRows, MaxProbeRows) : Len(q) > 0}}
    /\ out = [df |-> << >>, file |-> [exists |-> FALSE, rows |-> << >>]]

RoundTripLoad ==
    /\ pc = "in"
    /\ load_ok(arg)
    /\ out' = [out EXCEPT !.df = load_data(arg, Day0)]
    /\ pc' = "loaded"
    /\ UNCHANGED <<arg, PageVars>>

RoundTripLoadRaises ==
    /\ pc = "in"
    /\ ~load_ok(arg)
    /\ pc' = "raised"
    /\ UNCHANGED <<arg, out, PageVars>>

RoundTripSave ==
    /\ pc = "loaded"
    /\ out' = [out EXCEPT !.file = save_data(out.df)]
    /\ pc' = "saved"
    /\ UNCHANGED <<arg, PageVars>>

RoundTripNext == RoundTripLoad \/ RoundTripLoadRaises \/ RoundTripSave

SpecRoundTrip == RoundTripInit /\ [][RoundTripNext]_vars

LooksIso(s) ==
    /\ Len(s) = 10
    /\ \A i \in 1..10 : IF i \in {5, 8} THEN s[i] = "-" ELSE IsDigit(s[i])

\* a zero-padded YYYY-MM-DD text that names a day of the calendar
IsIsoDate(s) ==
    /\ LooksIso(s)
    /\ LET y == IntOf(SubSeq(s, 1, 4))
           m == IntOf(SubSeq(s, 6, 7))
           d == IntOf(SubSeq(s, 9, 10))
       IN  /\ 1 <= m /\ m <= 12
           /\ 1 <= d
           /\ d <= (CASE m \in {1, 3, 5, 7, 8, 10, 12} -> 31
                      [] m \in {4, 6, 9, 11} -> 30
                      [] OTHER -> IF y % 4 = 0 /\ (y % 100 # 0 \/ y % 400 = 0)
                                  THEN 29 ELSE 28)

RoundTripOf(s) == IF IsIsoDate(s) THEN s ELSE NoneText

====
